---- MODULE Spec2Model ----
(***************************************************************************)
(* Order and inventory transaction engine of the restaurant manager        *)
(* (src/main.py): catalog stock, cart, checkout, order editing, the order  *)
(* status machine and record-code generation, over the SQLite tables       *)
(* items, orders and order_items.                                          *)
(*                                                                         *)
(* DBManager.execute commits after every statement, so one statement is    *)
(* the unit of atomicity of the store.  Spec, SpecCheckout and SpecStatus  *)
(* run one application window whose handlers run to completion (its        *)
(* dialogs are modal); SpecMulti and SpecStale run two windows over the    *)
(* same database file, the first with the checkout split at its            *)
(* statements, the second with one window selling while the other edits;   *)
(* SpecCode runs ensure_row_code statement by statement in two windows.    *)
(* SpecCart, SpecEdit, SpecNormalize, SpecAdd, SpecQty, SpecInvalid and    *)
(* SpecExample are further one-window specifications, each with the        *)
(* handlers and the catalog its properties are about; SpecStaleStatus runs *)
(* two windows on one order; SpecCodeOne and SpecCodeLive run              *)
(* ensure_row_code in one window; SpecReport runs the report tab over      *)
(* stored orders of many dates.                                            *)
(***************************************************************************)
EXTENDS Integers, Sequences, FiniteSets, TLC

\* ------------------------------------------------------------------ bounds
\* item ids 1..NumItems (the seed inserts 20 items)
NumItems == 2
\* stock of every seeded item (50 in the seed)
SeedStock == 2
\* largest stock / price the item form is given
MaxStock == 2
MaxPrice == 2
\* largest quantity a cart or edit line is driven to
MaxQty == 2
\* rows the orders table may hold, with one window and with two
MaxOrders == 2
MaxOrdersMulti == 3
\* lines and line quantity of the seeded order (1..4 lines of 1..3 in the seed)
MaxSeedLines == 2
MaxSeedQty == 1
\* rows the orders table holds with imported codes when the code scenario starts
MaxImported == 2

\* the worked example: item 1 starts with this stock and price, and this many
\* are sold
ExampleStock == 5
ExamplePrice == 100
ExampleQty == 3
\* the year the report tab is asked about; stored orders lie in this year and
\* the years next to it
ReportYear == 2024

Items == 1..NumItems
Terminals == {"T1", "T2"}
NoOrder == 0

\* ------------------------------------------------------------- constants
STATUSES == <<"Pending", "Preparing", "Ready", "Completed">>
\* status strings a stored order row may carry: the four statuses, the legacy
\* label in three spellings, a lower-case spelling of a current status, and one
\* label the application does not know
StoredStatuses == {"Pending", "Preparing", "Ready", "Completed",
                   "Delivered", "delivered", "DELIVERED", "completed", "Cancelled"}

\* status of the stored order at start: the seed's first status (the others are
\* reached by status updates), the legacy label and an unknown label
SeedStatuses == {"Pending", "Delivered", "Cancelled"}

VARIABLES
  item_exists,   \* items: whether row id is present
  price,         \* items.price
  stock,         \* items.stock
  orders,        \* orders joined with its order_items: row id = index
  cart,          \* per window: self.cart, in insertion order
  cust_var,      \* per window: selected customer id, 0 = none
  dlg,           \* per window: the open dialog [kind, oid, status]
  edit_cart,     \* per window: self.edit_cart
  original_cart, \* per window: self.original_cart
  item_map,      \* per window: catalog rows read when the edit dialog opened
  pc,            \* per window: position inside an interleaved handler
  returned,      \* history, per window: its last statement-level
                 \* ensure_row_code call [oid, code, fresh, again]; fresh
                 \* until the next write to the orders table
  watch,         \* history: the handlers whose outcome is recorded
  last,          \* history: the watched handler that ran last and how it ended
  report         \* the report tab: what monthly_report returned last

vars == <<item_exists, price, stock, orders, cart, cust_var, dlg, edit_cart,
          original_cart, item_map, pc, returned, watch, last, report>>

\* -------------------------------------------------------------- helpers
Range(s) == {s[k] : k \in 1..Len(s)}

RECURSIVE SumSeq(_)
SumSeq(s) == IF s = <<>> THEN 0 ELSE Head(s) + SumSeq(Tail(s))

\* position of item id in a dict kept as a sequence of lines, 0 if absent
RECURSIVE IndexOf(_, _)
IndexOf(c, id) ==
  IF c = <<>> THEN 0
  ELSE IF c[Len(c)].id = id /\ IndexOf(SubSeq(c, 1, Len(c) - 1), id) = 0
       THEN Len(c)
       ELSE IndexOf(SubSeq(c, 1, Len(c) - 1), id)

InDict(c, id) == IndexOf(c, id) # 0
\* dict.get(id, {}).get("qty", 0)
QtyOf(c, id) == IF InDict(c, id) THEN c[IndexOf(c, id)].qty ELSE 0
\* dict.pop(id, None) / del dict[id]
Pop(c, id) == SelectSeq(c, LAMBDA d : d.id # id)
\* dict[id]["qty"] += delta
AddQty(c, id, delta) ==
  [k \in 1..Len(c) |-> IF c[k].id = id THEN [c[k] EXCEPT !.qty = @ + delta] ELSE c[k]]
\* dict[id] = row: replaces the value in place, or appends a new key
Put(c, row) ==
  IF InDict(c, row.id)
  THEN [k \in 1..Len(c) |-> IF c[k].id = row.id THEN row ELSE c[k]]
  ELSE Append(c, row)

\* quantity of item i on the persisted lines of all orders
RECURSIVE LineQty(_, _)
LineQty(lines, i) ==
  IF lines = <<>> THEN 0
  ELSE (IF Head(lines).item = i THEN Head(lines).qty ELSE 0) + LineQty(Tail(lines), i)

RECURSIVE OrderedQty(_, _)
OrderedQty(ords, i) ==
  IF ords = <<>> THEN 0
  ELSE LineQty(Head(ords).lines, i) + OrderedQty(Tail(ords), i)

\* ---------------------------------------------------------- record codes
\* f"{record_id:05d}"
Pad5(n) ==
  LET s == ToString(n)
  IN  IF Len(s) >= 5 THEN s ELSE SubSeq("00000", 1, 5 - Len(s)) \o s

generate_code(prefix, record_id) == prefix \o Pad5(record_id)

\* the while loop of ensure_row_code: first suffixed code no row carries
RECURSIVE NextFree(_, _, _, _)
NextFree(used, prefix, row_id, counter) ==
  LET code == prefix \o Pad5(row_id) \o "-" \o ToString(counter)
  IN  IF code \in used THEN NextFree(used, prefix, row_id, counter + 1) ELSE code

\* the code ensure_row_code settles on for a row without one
FreeCode(used, prefix, row_id) ==
  IF generate_code(prefix, row_id) \in used
  THEN NextFree(used, prefix, row_id, 1)
  ELSE generate_code(prefix, row_id)

\* ensure_row_code on the orders table: the orders with row oid carrying a code
ensure_row_code(ords, oid) ==
  IF ords[oid].code # ""
  THEN ords
  ELSE [ords EXCEPT ![oid].code =
          FreeCode({ords[k].code : k \in 1..Len(ords)}, "ORD-", oid)]

\* ----------------------------------------------------------------- status
status_for_order(ords, oid) == IF oid \in 1..Len(ords) THEN ords[oid].status ELSE ""

\* str.lower() on the status strings a row may carry
Lower(s) ==
  CASE s = "Delivered" -> "delivered"
    [] s = "DELIVERED" -> "delivered"
    [] s = "Pending" -> "pending"
    [] s = "Preparing" -> "preparing"
    [] s = "Ready" -> "ready"
    [] s = "Completed" -> "completed"
    [] s = "Cancelled" -> "cancelled"
    [] OTHER -> s

normalize_status_NoLegacy(status) ==
  IF status \in Range(STATUSES) THEN status ELSE "Pending"

normalize_status_ExactLegacy(status) ==
  IF status = "Delivered" THEN "Completed"
  ELSE IF status \in Range(STATUSES) THEN status ELSE "Pending"

normalize_status(status) ==
  IF Lower(status) = "delivered" THEN "Completed"
  ELSE IF status \in Range(STATUSES) THEN status ELSE "Pending"

\* ------------------------------------------------------------------ stock
get_item_stock(exists, stk, item_id) == IF exists[item_id] THEN stk[item_id] ELSE -1
NoStock == -1

\* (variant) the check returning from inside the loop: only the first cart line
\* is looked at
check_stock_availability_FirstOnly(exists, stk, c) ==
  IF c # <<>> /\ exists[c[1].id] /\ c[1].qty > stk[c[1].id]
  THEN << <<c[1].id, c[1].qty, stk[c[1].id]>> >>
  ELSE <<>>

\* the cart lines whose quantity exceeds the stock read now; a line whose item
\* row is gone is skipped
check_stock_availability(exists, stk, c) ==
  LET short(d) == exists[d.id] /\ d.qty > stk[d.id]
      bad == SelectSeq(c, short)
  IN  [k \in 1..Len(bad) |-> <<bad[k].id, bad[k].qty, stk[bad[k].id]>>]

\* UPDATE items SET stock = stock + delta WHERE id = item_id
UpdateStock(exists, stk, item_id, delta) ==
  IF exists[item_id] THEN [stk EXCEPT ![item_id] = @ + delta] ELSE stk

\* ------------------------------------------------------------------- cart
\* (variant) the total summed over unit prices, quantities forgotten
CartTotal_UnitPrices(c) == SumSeq([k \in 1..Len(c) |-> c[k].price])

\* sum(d["price"] * d["qty"] for d in self.cart.values())
CartTotal(c) == SumSeq([k \in 1..Len(c) |-> c[k].price * c[k].qty])

\* ------------------------------------------------------------ timestamps
\* datetime(year, month, day): midnight of that day
datetime(year, month, day) ==
  [y |-> year, mo |-> month, d |-> day, h |-> 0, mi |-> 0, s |-> 0]

\* a number as w decimal digits, zero-padded, each digit its character code
PadDigits(n, w) == [k \in 1..w |-> 48 + ((n \div (10 ^ (w - k))) % 10)]

\* strftime("%Y-%m-%d %H:%M:%S"): the text as its character codes
\* ('-' 45, ' ' 32, ':' 58)
strftime(ts) ==
  PadDigits(ts.y, 4) \o <<45>> \o PadDigits(ts.mo, 2) \o <<45>> \o PadDigits(ts.d, 2)
    \o <<32>> \o PadDigits(ts.h, 2) \o <<58>> \o PadDigits(ts.mi, 2)
    \o <<58>> \o PadDigits(ts.s, 2)

\* SQLite's comparison of two TEXT values: byte by byte, a proper prefix first
RECURSIVE TextLess(_, _)
TextLess(a, b) ==
  IF b = <<>> THEN FALSE
  ELSE IF a = <<>> THEN TRUE
  ELSE IF Head(a) # Head(b) THEN Head(a) < Head(b)
  ELSE TextLess(Tail(a), Tail(b))

\* start and end of monthly_report; month 0 stands for None ("All")
ReportRange(year, month) ==
  IF month # 0
  THEN [start |-> datetime(year, month, 1),
        end |-> IF month = 12 THEN datetime(year + 1, 1, 1)
                ELSE datetime(year, month + 1, 1)]
  ELSE [start |-> datetime(year, 1, 1), end |-> datetime(year + 1, 1, 1)]

\* SELECT ... FROM orders WHERE date >= ? AND date < ?  (the ids of the rows)
ReportRows_Closed(ords, start, end) ==
  {o \in 1..Len(ords) : /\ ~TextLess(ords[o].date, strftime(start))
                        /\ ~TextLess(strftime(end), ords[o].date)}

ReportRows(ords, start, end) ==
  {o \in 1..Len(ords) : /\ ~TextLess(ords[o].date, strftime(start))
                        /\ TextLess(ords[o].date, strftime(end))}

\* monthly_report: the rows in range, their revenue and their count per
\* normalized status (the top-items query is not modelled)
monthly_report(ords, year, month) ==
  LET r == ReportRange(year, month)
      rows == ReportRows(ords, r.start, r.end)
  IN  [orders |-> rows,
       total_revenue |-> SumSeq([o \in 1..Len(ords) |->
                                   IF o \in rows THEN ords[o].total ELSE 0]),
       status_counts |-> [st \in Range(STATUSES) |->
                            Cardinality({o \in rows : normalize_status(ords[o].status) = st})],
       start |-> r.start, end |-> r.end]

\* datetime.now() of the session, as checkout stamps it on a new order; the
\* specifications of the till do not advance the clock
SessionDate == strftime(datetime(ReportYear, 1, 1))

\* ---------------------------------------------------------------- checkout
\* INSERT INTO orders (customer_id, date, total, status) VALUES (?, ?, ?, 'Pending')
InsertOrder(ords, cid, total) ==
  Append(ords, [cust |-> cid, date |-> SessionDate, status |-> "Pending",
                total |-> total, code |-> "", lines |-> <<>>])

\* INSERT INTO order_items (order_id, item_id, quantity, subtotal)
InsertOrderItem(ords, oid, item_id, qty, subtotal) ==
  [ords EXCEPT ![oid].lines =
     Append(@, [item |-> item_id, qty |-> qty, subtotal |-> subtotal])]

\* the loop over the cart: each line is inserted and its stock deducted, one
\* committed statement after the other; the insert of a line whose item row is
\* gone breaks the foreign key and raises, leaving what was committed before
RECURSIVE WriteCartLines(_, _, _, _, _)
WriteCartLines(ords, stk, exists, oid, c) ==
  IF c = <<>> THEN [orders |-> ords, stock |-> stk, ok |-> TRUE]
  ELSE LET d == Head(c)
       IN  IF ~exists[d.id]
           THEN [orders |-> ords, stock |-> stk, ok |-> FALSE]
           ELSE WriteCartLines(InsertOrderItem(ords, oid, d.id, d.qty, d.price * d.qty),
                               UpdateStock(exists, stk, d.id, -d.qty),
                               exists, oid, Tail(c))

\* the write phase of checkout from the order insert on
CheckoutWrite(ords, stk, exists, cid, c) ==
  LET withOrder == ensure_row_code(InsertOrder(ords, cid, CartTotal(c)), Len(ords) + 1)
  IN  WriteCartLines(withOrder, stk, exists, Len(ords) + 1, c)

\* how a checkout pressed now ends
CheckoutOutcome_NoTotalCheck(t) ==
  IF cart[t] = <<>> THEN "empty"
  ELSE IF cust_var[t] = 0 THEN "nocustomer"
  ELSE IF check_stock_availability(item_exists, stock, cart[t]) # <<>> THEN "insufficient"
  ELSE IF CheckoutWrite(orders, stock, item_exists, cust_var[t], cart[t]).ok THEN "ok"
  ELSE "failed"

CheckoutOutcome(t) ==
  IF cart[t] = <<>> THEN "empty"
  ELSE IF cust_var[t] = 0 THEN "nocustomer"
  ELSE IF check_stock_availability(item_exists, stock, cart[t]) # <<>> THEN "insufficient"
  ELSE IF CartTotal(cart[t]) <= 0 THEN "invalid"
  ELSE IF CheckoutWrite(orders, stock, item_exists, cust_var[t], cart[t]).ok THEN "ok"
  ELSE "failed"

NoRecord == [op |-> "none", res |-> ""]

Done(op, t, res) ==
  /\ last' = IF op \in watch THEN [op |-> op, res |-> res] ELSE NoRecord
  /\ watch' = watch
  /\ returned' = returned
  /\ report' = report

UNCH_dialog == UNCHANGED <<dlg, edit_cart, original_cart, item_map>>
UNCH_items == UNCHANGED <<item_exists, price, stock>>

NoDialog == [kind |-> "none", oid |-> NoOrder, status |-> ""]

NotInCheckout == [at |-> "idle", oid |-> NoOrder, k |-> 0]

Idle(t) == dlg[t].kind = "none" /\ pc[t].at = "idle"

\* self.cart after the handler: emptied on the success path only
CartAfter_Always(t, res) == [cart EXCEPT ![t] = <<>>]
CartAfter(t, res) == IF res = "ok" THEN [cart EXCEPT ![t] = <<>>] ELSE cart

checkout(t) ==
  /\ Idle(t)
  /\ LET res == CheckoutOutcome(t)
         w == CheckoutWrite(orders, stock, item_exists, cust_var[t], cart[t])
     IN  /\ res \in {"ok", "failed"} => Len(orders) < MaxOrders
         /\ Done("checkout", t, res)
         /\ IF res \in {"ok", "failed"}
            THEN /\ orders' = w.orders
                 /\ stock' = w.stock
            ELSE UNCHANGED <<orders, stock>>
         /\ cart' = CartAfter(t, res)
  /\ UNCHANGED <<item_exists, price, cust_var, pc>>
  /\ UNCH_dialog

\* ------------------------------------------- checkout, statement by statement
\* The same handler with another window's statements free to run in between:
\* the guards and the stock check, then the order insert with its code, then
\* one cart line after the other.
checkout_check(t) ==
  /\ Idle(t)
  /\ LET res == CheckoutOutcome(t)
     IN  IF res \in {"ok", "failed"}
         THEN /\ pc' = [pc EXCEPT ![t] = [at |-> "checked", oid |-> NoOrder, k |-> 0]]
              /\ Done("checkout", t, "checked")
         ELSE /\ UNCHANGED pc
              /\ Done("checkout", t, res)
  /\ UNCH_items
  /\ UNCHANGED <<orders, cart, cust_var>>
  /\ UNCH_dialog

checkout_insert(t) ==
  /\ pc[t].at = "checked"
  /\ Len(orders) < MaxOrdersMulti
  /\ orders' = ensure_row_code(InsertOrder(orders, cust_var[t], CartTotal(cart[t])),
                               Len(orders) + 1)
  /\ pc' = [pc EXCEPT ![t] = [at |-> "lines", oid |-> Len(orders) + 1, k |-> 1]]
  /\ Done("checkout", t, "inserted")
  /\ UNCH_items
  /\ UNCHANGED <<cart, cust_var>>
  /\ UNCH_dialog

checkout_line(t) ==
  /\ pc[t].at = "lines"
  /\ LET d == cart[t][pc[t].k]
         lastLine == pc[t].k = Len(cart[t])
     IN  IF ~item_exists[d.id]
         THEN /\ Done("checkout", t, "failed")
              /\ pc' = [pc EXCEPT ![t] = NotInCheckout]
              /\ UNCHANGED <<orders, stock, cart>>
         ELSE /\ orders' = InsertOrderItem(orders, pc[t].oid, d.id, d.qty, d.price * d.qty)
              /\ stock' = UpdateStock(item_exists, stock, d.id, -d.qty)
              /\ IF lastLine
                 THEN /\ Done("checkout", t, "ok")
                      /\ pc' = [pc EXCEPT ![t] = NotInCheckout]
                      /\ cart' = [cart EXCEPT ![t] = <<>>]
                 ELSE /\ Done("checkout", t, "line")
                      /\ pc' = [pc EXCEPT ![t].k = @ + 1]
                      /\ UNCHANGED cart
  /\ UNCHANGED <<item_exists, price, cust_var>>
  /\ UNCH_dialog

\* ---------------------------------------------------------------- cart ops
\* the two refusals of add_cart and its success, from the stock read and the
\* quantity already in the cart
AddOutcome_OffByOne(current_stock, current_qty) ==
  IF current_stock = NoStock \/ current_stock <= 0 THEN "outofstock"
  ELSE IF current_qty > current_stock THEN "limit"
  ELSE "ok"

AddOutcome(current_stock, current_qty) ==
  IF current_stock = NoStock \/ current_stock <= 0 THEN "outofstock"
  ELSE IF current_qty >= current_stock THEN "limit"
  ELSE "ok"

\* a click on an item card; recorded as "outcome:item"
add_cart(t, item_id) ==
  /\ Idle(t)
  /\ item_exists[item_id]
  /\ LET current_stock == get_item_stock(item_exists, stock, item_id)
         current_qty == QtyOf(cart[t], item_id)
         res == AddOutcome(current_stock, current_qty)
     IN  /\ Done("add_cart", t, res \o ":" \o ToString(item_id))
         /\ IF res = "ok"
            THEN cart' = [cart EXCEPT ![t] =
                   IF InDict(@, item_id) THEN AddQty(@, item_id, 1)
                   ELSE Append(@, [id |-> item_id, price |-> price[item_id], qty |-> 1])]
            ELSE UNCHANGED cart
  /\ UNCH_items
  /\ UNCHANGED <<orders, cust_var, pc>>
  /\ UNCH_dialog

rem_cart(t, iid) ==
  /\ Idle(t)
  /\ InDict(cart[t], iid)
  /\ cart' = [cart EXCEPT ![t] = Pop(@, iid)]
  /\ Done("rem_cart", t, "ok")
  /\ UNCH_items
  /\ UNCHANGED <<orders, cust_var, pc>>
  /\ UNCH_dialog

\* self.cart after qty += delta on the line of iid: the line goes when its
\* quantity is <= 0
ChangedCart_KeepEmptyLine(c, iid, delta) == AddQty(c, iid, delta)

ChangedCart(c, iid, delta) ==
  IF QtyOf(c, iid) + delta <= 0 THEN Pop(c, iid) ELSE AddQty(c, iid, delta)

\* the + and - buttons of a cart line; recorded as "outcome:item:delta"
change_cart_qty(t, iid, delta) ==
  /\ Idle(t)
  /\ QtyOf(cart[t], iid) + delta <= MaxQty
  /\ LET res == IF InDict(cart[t], iid) THEN "ok" ELSE "absent"
     IN  /\ Done("change_cart_qty", t,
                 res \o ":" \o ToString(iid) \o ":" \o ToString(delta))
         /\ IF res = "absent"
            THEN UNCHANGED cart
            ELSE cart' = [cart EXCEPT ![t] = ChangedCart(@, iid, delta)]
  /\ UNCH_items
  /\ UNCHANGED <<orders, cust_var, pc>>
  /\ UNCH_dialog

select_customer(t, cid) ==
  /\ Idle(t)
  /\ cust_var[t] # cid
  /\ cust_var' = [cust_var EXCEPT ![t] = cid]
  /\ Done("select_customer", t, "ok")
  /\ UNCH_items
  /\ UNCHANGED <<orders, cart, pc>>
  /\ UNCH_dialog

\* ------------------------------------------------------------- item admin
\* an order line referencing the item blocks its deletion (foreign key)
Referenced(ords, iid) ==
  \E o \in 1..Len(ords) : \E k \in 1..Len(ords[o].lines) : ords[o].lines[k].item = iid

\* the id SQLite gives the next inserted item: largest present id + 1
NextItemId(exists) ==
  IF \E i \in Items : exists[i]
  THEN (CHOOSE i \in Items : exists[i] /\ \A j \in Items : exists[j] => j <= i) + 1
  ELSE 1

\* item form saved for an existing item
save_item(t, iid, p, s) ==
  /\ Idle(t)
  /\ item_exists[iid]
  /\ price' = [price EXCEPT ![iid] = p]
  /\ stock' = [stock EXCEPT ![iid] = s]
  /\ price'[iid] # price[iid] \/ stock'[iid] # stock[iid]
  /\ Done("save_item", t, "ok")
  /\ UNCHANGED <<item_exists, orders, cart, cust_var, pc>>
  /\ UNCH_dialog

\* item form saved for a new item
new_item(t, p, s) ==
  /\ Idle(t)
  /\ NextItemId(item_exists) \in Items
  /\ LET new_id == NextItemId(item_exists)
     IN  /\ item_exists' = [item_exists EXCEPT ![new_id] = TRUE]
         /\ price' = [price EXCEPT ![new_id] = p]
         /\ stock' = [stock EXCEPT ![new_id] = s]
  /\ Done("new_item", t, "ok")
  /\ UNCHANGED <<orders, cart, cust_var, pc>>
  /\ UNCH_dialog

del_item(t, iid) ==
  /\ Idle(t)
  /\ item_exists[iid]
  /\ IF Referenced(orders, iid)
     THEN Done("del_item", t, "failed") /\ UNCH_items
     ELSE /\ Done("del_item", t, "ok")
          /\ item_exists' = [item_exists EXCEPT ![iid] = FALSE]
          /\ price' = [price EXCEPT ![iid] = 0]
          /\ stock' = [stock EXCEPT ![iid] = 0]
  /\ UNCHANGED <<orders, cart, cust_var, pc>>
  /\ UNCH_dialog

\* ------------------------------------------------------------ order dialogs
OrderIds == 1..Len(orders)

\* order_details_popup: reads the status, makes sure the row has a code
order_details_popup(t, oid) ==
  /\ Idle(t)
  /\ oid \in OrderIds
  /\ orders' = ensure_row_code(orders, oid)
  /\ dlg' = [dlg EXCEPT ![t] =
       [kind |-> "details", oid |-> oid,
        status |-> normalize_status(status_for_order(orders, oid))]]
  /\ Done("order_details_popup", t, "ok")
  /\ UNCH_items
  /\ UNCHANGED <<cart, cust_var, edit_cart, original_cart, item_map, pc>>

\* the window's close button, on either dialog
close_dialog(t) ==
  /\ dlg[t].kind # "none"
  /\ dlg' = [dlg EXCEPT ![t] = NoDialog]
  /\ edit_cart' = [edit_cart EXCEPT ![t] = <<>>]
  /\ original_cart' = [original_cart EXCEPT ![t] = <<>>]
  /\ item_map' = [item_map EXCEPT ![t] = <<>>]
  /\ Done("close_dialog", t, "ok")
  /\ UNCH_items
  /\ UNCHANGED <<orders, cart, cust_var, pc>>

\* the Update Status button: enabled when the status read at opening was not
\* Completed; the handler reads the stored status again
\* UPDATE orders SET status=? WHERE id=?
SetStatus_ForwardOnly(ords, oid, new_status) ==
  LET Rank(st) == CHOOSE k \in 1..Len(STATUSES) : STATUSES[k] = st
  IN  IF Rank(new_status) >= Rank(normalize_status(ords[oid].status))
      THEN [ords EXCEPT ![oid].status = new_status]
      ELSE ords

SetStatus(ords, oid, new_status) == [ords EXCEPT ![oid].status = new_status]

\* the Update Status button; an accepted update is recorded as "from>to"
update_status(t, new_status) ==
  /\ dlg[t].kind = "details"
  /\ dlg[t].status # "Completed"
  /\ LET oid == dlg[t].oid
         current == normalize_status(status_for_order(orders, oid))
     IN  IF current = "Completed"
         THEN /\ Done("update_status", t, "locked")
              /\ UNCHANGED <<orders, dlg>>
         ELSE /\ Done("update_status", t, current \o ">" \o new_status)
              /\ orders' = SetStatus(orders, oid, new_status)
              /\ dlg' = [dlg EXCEPT ![t] = NoDialog]
  /\ UNCH_items
  /\ UNCHANGED <<cart, cust_var, edit_cart, original_cart, item_map, pc>>

\* rows of: order_items JOIN items WHERE order_id = oid
ExistingLines(ords, exists, oid) ==
  SelectSeq(ords[oid].lines, LAMBDA l : exists[l.item])

\* the loop filling self.edit_cart from the joined rows, at the catalog price
RECURSIVE LoadEditCart_OldPrice(_, _, _)
LoadEditCart_OldPrice(acc, rows, prc) ==
  IF rows = <<>> THEN acc
  ELSE LoadEditCart_OldPrice(
         Put(acc, [id |-> Head(rows).item,
                   price |-> Head(rows).subtotal \div Head(rows).qty,
                   qty |-> Head(rows).qty]),
         Tail(rows), prc)

RECURSIVE LoadEditCart(_, _, _)
LoadEditCart(acc, rows, prc) ==
  IF rows = <<>> THEN acc
  ELSE LoadEditCart(Put(acc, [id |-> Head(rows).item, price |-> prc[Head(rows).item],
                              qty |-> Head(rows).qty]),
                    Tail(rows), prc)

\* the same loop filling self.original_cart
RECURSIVE LoadOriginal(_, _)
LoadOriginal(acc, rows) ==
  IF rows = <<>> THEN acc
  ELSE LoadOriginal(Put(acc, [id |-> Head(rows).item, qty |-> Head(rows).qty]), Tail(rows))

\* SELECT id, name, price, stock FROM items, read when the dialog opens
ReadItemMap(exists, prc, stk) ==
  [i \in Items |-> [exists |-> exists[i], price |-> prc[i], stock |-> stk[i]]]

\* the Edit Items button of the details dialog: closes it and opens the editor
edit_order_popup(t) ==
  /\ dlg[t].kind = "details"
  /\ dlg[t].status # "Completed"
  /\ LET oid == dlg[t].oid
         status == normalize_status(status_for_order(orders, oid))
         rows == ExistingLines(orders, item_exists, oid)
     IN  IF status = "Completed"
         THEN /\ Done("edit_order_popup", t, "locked")
              /\ dlg' = [dlg EXCEPT ![t] = NoDialog]
              /\ UNCHANGED <<orders, edit_cart, original_cart, item_map>>
         ELSE /\ Done("edit_order_popup", t, "ok")
              /\ orders' = ensure_row_code(orders, oid)
              /\ dlg' = [dlg EXCEPT ![t] = [kind |-> "edit", oid |-> oid, status |-> status]]
              /\ edit_cart' = [edit_cart EXCEPT ![t] = LoadEditCart(<<>>, rows, price)]
              /\ original_cart' = [original_cart EXCEPT ![t] = LoadOriginal(<<>>, rows)]
              /\ item_map' = [item_map EXCEPT ![t] = ReadItemMap(item_exists, price, stock)]
  /\ UNCH_items
  /\ UNCHANGED <<cart, cust_var, pc>>

\* what an editor line may hold: the stock plus what the order already holds
Available_OneMore(current_stock, original_qty) == current_stock + original_qty + 1

Available(current_stock, original_qty) == current_stock + original_qty

\* Add Item in the editor: checks against the stock read when the dialog opened
add_new(t, item_id) ==
  /\ dlg[t].kind = "edit"
  /\ item_map[t][item_id].exists
  /\ QtyOf(edit_cart[t], item_id) < MaxQty
  /\ LET raw == item_map[t][item_id]
         original_qty == QtyOf(original_cart[t], item_id)
         current_edit_qty == QtyOf(edit_cart[t], item_id)
         available == Available(raw.stock, original_qty)
     IN  IF current_edit_qty >= available
         THEN Done("add_new", t, "limit") /\ UNCHANGED edit_cart
         ELSE /\ Done("add_new", t, "ok")
              /\ edit_cart' = [edit_cart EXCEPT ![t] =
                   IF InDict(@, item_id) THEN AddQty(@, item_id, 1)
                   ELSE Append(@, [id |-> item_id, price |-> raw.price, qty |-> 1])]
  /\ UNCH_items
  /\ UNCHANGED <<orders, cart, cust_var, dlg, original_cart, item_map, pc>>

\* the + and - buttons of an editor line: + checks against the stock read now
\* (cap: the largest quantity the line is driven to)
change_qty_upto(t, iid, delta, cap) ==
  /\ dlg[t].kind = "edit"
  /\ InDict(edit_cart[t], iid)
  /\ QtyOf(edit_cart[t], iid) + delta <= cap
  /\ LET read == get_item_stock(item_exists, stock, iid)
         current_stock == IF read = NoStock THEN 0 ELSE read
         original_qty == QtyOf(original_cart[t], iid)
         current_edit_qty == QtyOf(edit_cart[t], iid)
         available == Available(current_stock, original_qty)
     IN  IF delta > 0 /\ current_edit_qty >= available
         THEN Done("change_qty", t, "limit") /\ UNCHANGED edit_cart
         ELSE /\ Done("change_qty", t, "ok")
              /\ edit_cart' = [edit_cart EXCEPT ![t] =
                   IF current_edit_qty + delta <= 0 THEN Pop(@, iid)
                   ELSE AddQty(@, iid, delta)]
  /\ UNCH_items
  /\ UNCHANGED <<orders, cart, cust_var, dlg, original_cart, item_map, pc>>

change_qty(t, iid, delta) == change_qty_upto(t, iid, delta, MaxQty)

\* first loop of save_changes: every original item gets orig - new back
RECURSIVE AdjustOriginal(_, _, _, _)
AdjustOriginal(stk, exists, orig, ec) ==
  IF orig = <<>> THEN stk
  ELSE AdjustOriginal(UpdateStock(exists, stk, Head(orig).id,
                                  Head(orig).qty - QtyOf(ec, Head(orig).id)),
                      exists, Tail(orig), ec)

\* second loop of save_changes: every item new to the order is deducted in full
DeductNew_Nothing(stk, exists, orig, rest) == stk

RECURSIVE DeductNew(_, _, _, _)
DeductNew(stk, exists, orig, rest) ==
  IF rest = <<>> THEN stk
  ELSE DeductNew(IF InDict(orig, Head(rest).id) THEN stk
                 ELSE UpdateStock(exists, stk, Head(rest).id, -Head(rest).qty),
                 exists, orig, Tail(rest))

\* the insert loop of save_changes; a line whose item row is gone raises
RECURSIVE InsertEditLines(_, _, _, _)
InsertEditLines(ords, exists, oid, rest) ==
  IF rest = <<>> THEN [orders |-> ords, ok |-> TRUE]
  ELSE IF ~exists[Head(rest).id] THEN [orders |-> ords, ok |-> FALSE]
  ELSE InsertEditLines(InsertOrderItem(ords, oid, Head(rest).id, Head(rest).qty,
                                       Head(rest).qty * Head(rest).price),
                       exists, oid, Tail(rest))

\* UPDATE orders SET total=?, status=? WHERE id=? with status 'Preparing'
SavedOrder_KeepStatus(o, total) == [o EXCEPT !.total = total]
SavedOrder(o, total) == [o EXCEPT !.total = total, !.status = "Preparing"]

\* the statements of save_changes in order, each committed on its own
SaveWrite(ords, stk, exists, oid, orig, ec) ==
  LET stk2 == DeductNew(AdjustOriginal(stk, exists, orig, ec), exists, orig, ec)
      total == SumSeq([k \in 1..Len(ec) |-> ec[k].qty * ec[k].price])
      deleted == [ords EXCEPT ![oid].lines = <<>>]
      ins == InsertEditLines(deleted, exists, oid, ec)
  IN  [stock |-> stk2,
       orders |-> IF ins.ok
                  THEN [ins.orders EXCEPT ![oid] = SavedOrder(@, total)]
                  ELSE ins.orders,
       ok |-> ins.ok]

save_changes(t) ==
  /\ dlg[t].kind = "edit"
  /\ LET oid == dlg[t].oid
         w == SaveWrite(orders, stock, item_exists, oid, original_cart[t], edit_cart[t])
     IN  IF edit_cart[t] = <<>>
         THEN /\ Done("save_changes", t, "invalid")
              /\ UNCHANGED <<orders, stock, dlg, edit_cart, original_cart, item_map>>
         ELSE /\ orders' = w.orders
              /\ stock' = w.stock
              /\ IF w.ok
                 THEN /\ Done("save_changes", t, "ok")
                      /\ dlg' = [dlg EXCEPT ![t] = NoDialog]
                      /\ edit_cart' = [edit_cart EXCEPT ![t] = <<>>]
                      /\ original_cart' = [original_cart EXCEPT ![t] = <<>>]
                      /\ item_map' = [item_map EXCEPT ![t] = <<>>]
                 ELSE /\ Done("save_changes", t, "failed")
                      /\ UNCHANGED <<dlg, edit_cart, original_cart, item_map>>
  /\ UNCHANGED <<item_exists, price, cart, cust_var, pc>>

\* ------------------------------------------------------------- report tab
NoReport == [year |-> 0, month |-> 0, result |-> <<>>]

\* refresh_report: the report tab with a year and a month (0 for "All") chosen
refresh_report(t, year, month) ==
  /\ Idle(t)
  /\ report' = [year |-> year, month |-> month,
                result |-> monthly_report(orders, year, month)]
  /\ UNCH_items
  /\ UNCH_dialog
  /\ UNCHANGED <<orders, cart, cust_var, pc, returned, watch, last>>

\* ------------------------------------- ensure_row_code, statement by statement
\* The same function on the orders table with another window's statements free
\* to run in between: the read of the row's code, the probes of the while loop,
\* the UPDATE.  pc[t].k is the loop's position: 0 for the base code, counter
\* for the suffixed one.
NoReturn == [oid |-> NoOrder, code |-> "", fresh |-> FALSE, again |-> FALSE]

\* whether the call window t is in repeats its previous call: same row, and no
\* write to the table since that call returned
Repeats(t) == returned[t].fresh /\ returned[t].oid = pc[t].oid

\* res[0][0] of SELECT order_code FROM orders WHERE id=?
CurrentCode_Blank(ords, oid) == ""
CurrentCode(ords, oid) == ords[oid].code

\* SELECT 1 FROM orders WHERE order_code=?
CodeInUse_Never(ords, code) == FALSE
CodeInUse(ords, code) == \E r \in 1..Len(ords) : ords[r].code = code

\* the code the loop holds at position k
Candidate_SameSuffix(prefix, row_id, k) ==
  IF k = 0 THEN generate_code(prefix, row_id)
  ELSE prefix \o Pad5(row_id) \o "-" \o ToString(1)

Candidate(prefix, row_id, k) ==
  IF k = 0 THEN generate_code(prefix, row_id)
  ELSE prefix \o Pad5(row_id) \o "-" \o ToString(k)

\* the unique index on order_code: a code another row carries is refused
IndexRefuses(ords, oid, code) ==
  \E r \in 1..Len(ords) : r # oid /\ ords[r].code = code

\* a write to the orders table ends the freshness of every recorded return
Stale(ret) == [t \in Terminals |-> [ret[t] EXCEPT !.fresh = FALSE]]

UNCH_windows == UNCHANGED <<cart, cust_var, dlg, edit_cart, original_cart, item_map>>

\* INSERT INTO orders of checkout, the row's code still to be assigned
erc_insert(t) ==
  /\ pc[t].at = "idle"
  /\ Len(orders) < MaxOrdersMulti
  /\ orders' = InsertOrder(orders, cust_var[t], 1)
  /\ pc' = [pc EXCEPT ![t] = [at |-> "erc_call", oid |-> Len(orders) + 1, k |-> 0]]
  /\ returned' = Stale(returned)
  /\ UNCHANGED <<watch, last, report>>
  /\ UNCH_items
  /\ UNCH_windows

\* a handler about to call ensure_row_code on a stored row (the details
\* dialog, the editor, the invoice)
erc_enter(t, oid) ==
  /\ pc[t].at = "idle"
  /\ oid \in 1..Len(orders)
  /\ pc' = [pc EXCEPT ![t] = [at |-> "erc_call", oid |-> oid, k |-> 0]]
  /\ UNCHANGED <<orders, returned, watch, last, report>>
  /\ UNCH_items
  /\ UNCH_windows

\* the SELECT of the row's code and the early return
erc_read(t) ==
  /\ pc[t].at = "erc_call"
  /\ LET current == CurrentCode(orders, pc[t].oid)
     IN  IF current # ""
         THEN /\ returned' = [returned EXCEPT ![t] =
                    [oid |-> pc[t].oid, code |-> current, fresh |-> TRUE,
                     again |-> Repeats(t)]]
              /\ pc' = [pc EXCEPT ![t] = NotInCheckout]
         ELSE /\ pc' = [pc EXCEPT ![t].at = "erc_probe"]
              /\ UNCHANGED returned
  /\ UNCHANGED <<orders, watch, last, report>>
  /\ UNCH_items
  /\ UNCH_windows

\* one test of the while condition
erc_probe(t) ==
  /\ pc[t].at = "erc_probe"
  /\ IF CodeInUse(orders, Candidate("ORD-", pc[t].oid, pc[t].k))
     THEN pc' = [pc EXCEPT ![t].k = @ + 1]
     ELSE pc' = [pc EXCEPT ![t].at = "erc_update"]
  /\ UNCHANGED <<orders, returned, watch, last, report>>
  /\ UNCH_items
  /\ UNCH_windows

\* the UPDATE and the return; a code the index refuses raises and the row keeps
\* what it had
erc_update(t) ==
  /\ pc[t].at = "erc_update"
  /\ LET oid == pc[t].oid
         code == Candidate("ORD-", oid, pc[t].k)
     IN  IF IndexRefuses(orders, oid, code)
         THEN UNCHANGED <<orders, returned>>
         ELSE /\ orders' = [orders EXCEPT ![oid].code = code]
              /\ returned' = [Stale(returned) EXCEPT ![t] =
                    [oid |-> oid, code |-> code, fresh |-> TRUE,
                     again |-> Repeats(t)]]
  /\ pc' = [pc EXCEPT ![t] = NotInCheckout]
  /\ UNCHANGED <<watch, last, report>>
  /\ UNCH_items
  /\ UNCH_windows

\* ------------------------------------------------------------------- init
SeedLines ==
  UNION {[1..n -> [item : Items, qty : 1..MaxSeedQty]] : n \in 1..MaxSeedLines}

\* the seeded order: lines priced at the seed price, stock not deducted
SeedOrder(st, ls) ==
  LET priced == [k \in 1..Len(ls) |->
                   [item |-> ls[k].item, qty |-> ls[k].qty, subtotal |-> ls[k].qty]]
  IN  [cust |-> 1, date |-> SessionDate, status |-> st, code |-> generate_code("ORD-", 1),
       total |-> SumSeq([k \in 1..Len(ls) |-> priced[k].subtotal]), lines |-> priced]

InitTerminals ==
  /\ cart = [t \in Terminals |-> <<>>]
  /\ cust_var = [t \in Terminals |-> 1]
  /\ dlg = [t \in Terminals |-> NoDialog]
  /\ edit_cart = [t \in Terminals |-> <<>>]
  /\ original_cart = [t \in Terminals |-> <<>>]
  /\ item_map = [t \in Terminals |-> <<>>]
  /\ pc = [t \in Terminals |-> NotInCheckout]
  /\ returned = [t \in Terminals |-> NoReturn]
  /\ report = NoReport

InitItems ==
  /\ item_exists = [i \in Items |-> TRUE]
  /\ price = [i \in Items |-> 1]
  /\ stock = [i \in Items |-> SeedStock]

CartOps(t) ==
  \/ \E i \in Items : add_cart(t, i)
  \/ \E i \in Items : rem_cart(t, i)
  \/ \E i \in Items, delta \in {-1, 1} : change_cart_qty(t, i, delta)

Dialogs(t) ==
  \/ \E o \in OrderIds : order_details_popup(t, o)
  \/ close_dialog(t)
  \/ edit_order_popup(t)
  \/ \E i \in Items : add_new(t, i)
  \/ \E i \in Items, delta \in {-1, 1} : change_qty(t, i, delta)
  \/ save_changes(t)

\* ---- Spec: one window; cart, checkout and order editing, over a stored order
\* of any seeded shape
Init ==
  /\ InitItems
  /\ \E ls \in SeedLines : orders = <<SeedOrder("Pending", ls)>>
  /\ InitTerminals
  /\ watch = {}
  /\ last = NoRecord

Next ==
  \/ CartOps("T1")
  \/ checkout("T1")
  \/ Dialogs("T1")

Spec == Init /\ [][Next]_vars

\* ---- SpecCheckout: one window; cart, customer choice, checkout and the whole
\* item administration (price, stock, new and deleted items)
InitCheckout ==
  /\ InitItems
  /\ orders = <<SeedOrder("Pending", <<[item |-> 1, qty |-> 1]>>)>>
  /\ InitTerminals
  /\ watch = {"checkout"}
  /\ last = NoRecord

NextCheckout ==
  \/ CartOps("T1")
  \/ \E c \in 0..1 : select_customer("T1", c)
  \/ checkout("T1")
  \/ \E i \in Items, p \in 1..MaxPrice, s \in 0..MaxStock : save_item("T1", i, p, s)
  \/ \E p \in 1..MaxPrice, s \in 0..MaxStock : new_item("T1", p, s)
  \/ \E i \in Items : del_item("T1", i)

SpecCheckout == InitCheckout /\ [][NextCheckout]_vars

\* ---- SpecMulti: two windows of the application over one database file, both
\* taking orders; a window's checkout runs statement by statement
InitMulti ==
  /\ InitItems
  /\ orders = <<SeedOrder("Pending", <<[item |-> 1, qty |-> 1]>>)>>
  /\ InitTerminals
  /\ watch = {"checkout"}
  /\ last = NoRecord

Window(t) ==
  \/ \E i \in Items : add_cart(t, i)
  \/ checkout_check(t)
  \/ checkout_insert(t)
  \/ checkout_line(t)

NextMulti == \E t \in Terminals : Window(t)

SpecMulti == InitMulti /\ [][NextMulti]_vars

\* ---- SpecStale: two windows over one database file; one takes orders while
\* the other has the order dialogs open
InitStale ==
  /\ InitItems
  /\ orders = <<SeedOrder("Pending", <<[item |-> 1, qty |-> 1]>>)>>
  /\ InitTerminals
  /\ watch = {"save_changes"}
  /\ last = NoRecord

NextStale ==
  \/ \E i \in Items : add_cart("T1", i)
  \/ checkout("T1")
  \/ Dialogs("T2")

SpecStale == InitStale /\ [][NextStale]_vars

\* ---- SpecStatus: one window; orders are taken, viewed, edited and moved
\* through the statuses, over a stored order of any starting status
InitStatus ==
  /\ InitItems
  /\ \E st \in SeedStatuses : orders = <<SeedOrder(st, <<[item |-> 1, qty |-> 1]>>)>>
  /\ InitTerminals
  /\ watch = {"update_status"}
  /\ last = NoRecord

NextStatus ==
  \/ \E i \in Items : add_cart("T1", i)
  \/ checkout("T1")
  \/ Dialogs("T1")
  \/ \E st \in Range(STATUSES) : update_status("T1", st)

SpecStatus == InitStatus /\ [][NextStatus]_vars

\* ---- SpecAdd: one window at the till; item cards, cart buttons and checkout
InitAdd ==
  /\ InitItems
  /\ orders = <<SeedOrder("Pending", <<[item |-> 1, qty |-> 1]>>)>>
  /\ InitTerminals
  /\ watch = {"add_cart"}
  /\ last = NoRecord

NextAdd ==
  \/ CartOps("T1")
  \/ checkout("T1")

SpecAdd == InitAdd /\ [][NextAdd]_vars

\* ---- one window over a database whose order rows carry any stored status:
\* ---- the details dialog and the editor read the status through
\* ---- normalize_status
InitNormalize ==
  /\ InitItems
  /\ \E st \in StoredStatuses, ls \in SeedLines : orders = <<SeedOrder(st, ls)>>
  /\ InitTerminals
  /\ watch = {"order_details_popup"}
  /\ last = NoRecord

NextNormalize ==
  \/ Dialogs("T1")
  \/ \E st \in Range(STATUSES) : update_status("T1", st)

SpecNormalize == InitNormalize /\ [][NextNormalize]_vars

\* ---- SpecCode: two windows over one database file calling ensure_row_code on
\* the orders table, whose rows carry imported codes at start
ImportedCodes == {"ORD-00001", "ORD-00002", "ORD-00003", "ORD-00003-1", "LEG-7"}

ImportedOrder(code) ==
  [SeedOrder("Pending", <<[item |-> 1, qty |-> 1]>>) EXCEPT !.code = code]

InitCode ==
  /\ InitItems
  /\ \E n \in 1..MaxImported :
       \E cs \in [1..n -> ImportedCodes] :
         /\ \A a, b \in 1..n : a # b => cs[a] # cs[b]
         /\ orders = [r \in 1..n |-> ImportedOrder(cs[r])]
  /\ InitTerminals
  /\ watch = {}
  /\ last = NoRecord

NextCode ==
  \E t \in Terminals :
    \/ erc_insert(t)
    \/ \E o \in 1..MaxOrdersMulti : erc_enter(t, o)
    \/ erc_read(t)
    \/ erc_probe(t)
    \/ erc_update(t)

SpecCode == InitCode /\ [][NextCode]_vars

\* ---- SpecQty: the till of SpecAdd, the + and - buttons recorded
InitQty ==
  /\ InitItems
  /\ orders = <<SeedOrder("Pending", <<[item |-> 1, qty |-> 1]>>)>>
  /\ InitTerminals
  /\ watch = {"change_cart_qty"}
  /\ last = NoRecord

SpecQty == InitQty /\ [][NextAdd]_vars

\* ---- SpecCodeOne: the same calls from one window
NextCodeOne ==
  \/ erc_insert("T1")
  \/ \E o \in 1..MaxOrdersMulti : erc_enter("T1", o)
  \/ erc_read("T1")
  \/ erc_probe("T1")
  \/ erc_update("T1")

SpecCodeOne == InitCode /\ [][NextCodeOne]_vars

\* ---- SpecCodeLive: the same, a call once entered running on to its return
\* ---- (the handlers run on the one thread of the event loop)
SpecCodeLive ==
  /\ SpecCodeOne
  /\ WF_vars(erc_read("T1") \/ erc_probe("T1") \/ erc_update("T1"))

\* ---- SpecCart: one window at the till over an imported catalog (prices not
\* validated by the item form, so possibly 0); cart, customer choice, checkout
\* and the item form saved with a new stock (it refuses a price of 0)
ImportedPrices == {0, 1}

InitCart ==
  /\ item_exists = [i \in Items |-> TRUE]
  /\ price \in [Items -> ImportedPrices]
  /\ stock = [i \in Items |-> SeedStock]
  /\ orders = <<SeedOrder("Pending", <<[item |-> 1, qty |-> 1]>>)>>
  /\ InitTerminals
  /\ watch = {"checkout"}
  /\ last = NoRecord

NextCart ==
  \/ CartOps("T1")
  \/ \E c \in 0..1 : select_customer("T1", c)
  \/ checkout("T1")
  \/ \E i \in Items, s \in 0..MaxStock : price[i] > 0 /\ save_item("T1", i, price[i], s)
  \/ \E i \in Items : del_item("T1", i)

SpecCart == InitCart /\ [][NextCart]_vars

\* ---- SpecEdit: one window; the order dialogs and the item form (price and
\* stock), over a seeded order of any shape in any status the seed gives
InitEdit ==
  /\ InitItems
  /\ \E st \in Range(STATUSES) \ {"Completed"}, ls \in SeedLines :
       orders = <<SeedOrder(st, ls)>>
  /\ InitTerminals
  /\ watch = {"save_changes"}
  /\ last = NoRecord

NextEdit ==
  \/ Dialogs("T1")
  \/ \E i \in Items, p \in 1..MaxPrice, s \in 0..MaxStock : save_item("T1", i, p, s)

SpecEdit == InitEdit /\ [][NextEdit]_vars

\* ---- SpecInvalid: one window; item cards, customer choice (or none),
\* ---- checkout and the order dialogs, over a catalog that may hold items
\* ---- priced 0
InitInvalid ==
  /\ item_exists = [i \in Items |-> TRUE]
  /\ price \in [Items -> ImportedPrices]
  /\ stock = [i \in Items |-> SeedStock]
  /\ orders = <<SeedOrder("Pending", <<[item |-> 1, qty |-> 1]>>)>>
  /\ InitTerminals
  /\ watch = {"checkout", "save_changes"}
  /\ last = NoRecord

NextInvalid ==
  \/ \E i \in Items : add_cart("T1", i)
  \/ \E c \in 0..1 : select_customer("T1", c)
  \/ checkout("T1")
  \/ Dialogs("T1")

SpecInvalid == InitInvalid /\ [][NextInvalid]_vars

\* ---- SpecStaleStatus: two windows on one database file; both open the
\* ---- details dialog and update the status, the second also edits the order
InitStaleStatus ==
  /\ InitItems
  /\ orders = <<SeedOrder("Pending", <<[item |-> 1, qty |-> 1]>>)>>
  /\ InitTerminals
  /\ watch = {"update_status", "save_changes"}
  /\ last = NoRecord

NextStaleStatus ==
  \/ \E o \in OrderIds : order_details_popup("T1", o)
  \/ close_dialog("T1")
  \/ \E st \in Range(STATUSES) : update_status("T1", st)
  \/ Dialogs("T2")
  \/ \E st \in Range(STATUSES) : update_status("T2", st)

SpecStaleStatus == InitStaleStatus /\ [][NextStaleStatus]_vars

\* ---- SpecReport: the report tab over a database holding two orders taken
\* ---- in earlier sessions, each stamped at the first instant of a month, late
\* ---- in a month or in the last second of a year
AtTime(ts, h, mi, sec) == [ts EXCEPT !.h = h, !.mi = mi, !.s = sec]

StoredDates ==
  {strftime(ts) : ts \in
     UNION {{datetime(y, mo, 1), AtTime(datetime(y, mo, 28), 23, 59, 59)} :
              y \in (ReportYear - 1)..(ReportYear + 1), mo \in 1..12}
     \cup {AtTime(datetime(y, 12, 31), 23, 59, 59) :
              y \in (ReportYear - 1)..(ReportYear + 1)}}

StoredOrder(id, date, qty) ==
  [SeedOrder("Pending", <<[item |-> 1, qty |-> qty]>>)
     EXCEPT !.date = date, !.code = generate_code("ORD-", id)]

InitReport ==
  /\ InitItems
  /\ \E d1, d2 \in StoredDates : orders = <<StoredOrder(1, d1, 1), StoredOrder(2, d2, 2)>>
  /\ InitTerminals
  /\ watch = {}
  /\ last = NoRecord

NextReport ==
  \E month \in 0..12 : refresh_report("T1", ReportYear, month)

SpecReport == InitReport /\ [][NextReport]_vars

\* ---- SpecExample: one window; item 1 with the example's stock and price;
\* ---- item cards, checkout, and the order dialogs with editor lines driven
\* ---- up to the example's stock
InitExample ==
  /\ item_exists = [i \in Items |-> TRUE]
  /\ price = [i \in Items |-> IF i = 1 THEN ExamplePrice ELSE 1]
  /\ stock = [i \in Items |-> IF i = 1 THEN ExampleStock ELSE SeedStock]
  /\ orders = <<SeedOrder("Pending", <<[item |-> 2, qty |-> 1]>>)>>
  /\ InitTerminals
  /\ watch = {"add_cart", "checkout", "change_qty", "save_changes"}
  /\ last = NoRecord

NextExample ==
  \/ \E i \in Items : add_cart("T1", i)
  \/ checkout("T1")
  \/ \E o \in OrderIds : order_details_popup("T1", o)
  \/ close_dialog("T1")
  \/ edit_order_popup("T1")
  \/ \E i \in Items, delta \in {-1, 1} : change_qty_upto("T1", i, delta, ExampleStock)
  \/ save_changes("T1")

SpecExample == InitExample /\ [][NextExample]_vars

\* ======================================================================
\* Properties
\* ======================================================================

C2_StockConservation ==
  [][\A i \in Items :
       stock[i] - stock'[i] = OrderedQty(orders', i) - OrderedQty(orders, i)]_vars

\* a cart line asks for more than the stock its item has now
ShortLine(c) ==
  \E k \in 1..Len(c) : item_exists[c[k].id] /\ c[k].qty > stock[c[k].id]

\* C3: a checkout pressed while some cart line's quantity exceeds the item's
\* current stock decrements no stock and persists no order row and no order line.
C3_CheckoutAtomicOnShortStock ==
  [][(last'.op = "checkout" /\ ShortLine(cart["T1"]))
       => (stock' = stock /\ orders' = orders)]_vars

\* a checkout of a two-line cart was refused for insufficient stock
C3_Witness ==
  /\ last = [op |-> "checkout", res |-> "insufficient"]
  /\ Len(cart["T1"]) = 2
  /\ ~ShortLine(SubSeq(cart["T1"], 1, 1))

\* C4: a checkout whose write phase fails leaves no order row, no order line and
\* no stock decrement of its own behind.
C4_CheckoutRollback ==
  [][(last'.op = "checkout" /\ last'.res = "failed")
       => (orders' = orders /\ stock' = stock)]_vars

\* C10: a successful checkout appends exactly one order, Pending, with the cart
\* total, one line per cart entry with subtotal = quantity x price snapshot, and
\* takes each ordered quantity, and nothing else, from the stock.
C10_CheckoutEffect ==
  [][(last'.op = "checkout" /\ last'.res = "ok") =>
       LET c == cart["T1"]
           o == orders'[Len(orders')]
       IN  /\ c # <<>>
           /\ Len(orders') = Len(orders) + 1
           /\ SubSeq(orders', 1, Len(orders)) = orders
           /\ o.status = "Pending"
           /\ o.total = SumSeq([k \in 1..Len(c) |-> c[k].qty * c[k].price])
           /\ Len(o.lines) = Len(c)
           /\ \A k \in 1..Len(c) :
                o.lines[k] = [item |-> c[k].id, qty |-> c[k].qty,
                              subtotal |-> c[k].qty * c[k].price]
           /\ \A i \in Items : stock'[i] = stock[i] - QtyOf(c, i)]_vars

\* a two-line checkout succeeded, one line at a price the catalog no longer
\* shows and one line of quantity 2
C10_Witness ==
  /\ last = [op |-> "checkout", res |-> "ok"]
  /\ LET o == orders[Len(orders)]
     IN  /\ Len(o.lines) = 2
         /\ \E k \in 1..2 : o.lines[k].subtotal # o.lines[k].qty * price[o.lines[k].item]
         /\ \E k \in 1..2 : o.lines[k].qty = 2

\* some line of an open editor asks for more than the item's stock now plus
\* the quantity the order held of it when the editor opened
Overdrawn(t) ==
  \E k \in 1..Len(edit_cart[t]) :
    edit_cart[t][k].qty >
      stock[edit_cart[t][k].id] + QtyOf(original_cart[t], edit_cart[t][k].id)

\* C5: saving an edit that asks, for some item, for more than its current stock
\* plus its original quantity changes no stock and leaves the order's lines,
\* total and status as they were.
C5_EditRejectedOnShortStock ==
  [][(last'.op = "save_changes" /\ Overdrawn("T2"))
       => (stock' = stock /\ orders' = orders)]_vars

C7_NoJointOversell ==
  [][last'.op = "checkout" => \A i \in Items : stock'[i] < stock[i] => stock'[i] >= 0]_vars

C9_EnsureRowCodeIdempotent ==
  [][\A t \in Terminals :
       (pc[t].at \in {"erc_call", "erc_probe", "erc_update"} /\ pc'[t] # pc[t]
          /\ Repeats(t))
         => /\ \A r \in 1..Len(orders) : orders'[r].code = orders[r].code
            /\ returned'[t].code = returned[t].code]_vars

\* a window's second call in a row on the order it had given a suffixed code
\* has returned that code
C9_Witness ==
  /\ returned["T1"] = [oid |-> 3, code |-> "ORD-00003-1", fresh |-> TRUE, again |-> TRUE]
  /\ pc["T1"].at = "idle"

\* C11: a checkout that succeeds leaves the cart empty; a checkout that is
\* rejected (empty cart, no customer, insufficient stock, total <= 0) or whose
\* write phase fails leaves the cart exactly as it was.
C11_CartClearedOnlyOnSuccess ==
  [][last'.op = "checkout" =>
       IF last'.res = "ok" THEN cart'["T1"] = <<>> ELSE cart' = cart]_vars

\* a checkout of a two-line cart failed in its write phase
C11_Witness ==
  /\ last = [op |-> "checkout", res |-> "failed"]
  /\ Len(cart["T1"]) = 2

\* a Save Changes of window T1 that went through
SavedOk == last'.op = "save_changes" /\ last'.res = "ok"

\* C12: a successful edit changes every item's stock by the quantity the order's
\* persisted lines held of it before the edit minus its quantity in the new
\* line set (0 on either side when the item is absent there).
C12_EditStockDiff ==
  [][SavedOk =>
       \A i \in Items :
         stock'[i] - stock[i] =
           LineQty(orders[dlg["T1"].oid].lines, i) - QtyOf(edit_cart["T1"], i)]_vars

\* C13: a successful edit leaves the order in status Preparing, whichever of
\* Pending, Preparing and Ready it was in before.
C13_EditForcesPreparing ==
  [][SavedOk => orders'[dlg["T1"].oid].status = "Preparing"]_vars

\* an edit that gave the order a second line was saved
C13_Witness ==
  /\ last = [op |-> "save_changes", res |-> "ok"]
  /\ orders[1].status = "Preparing"
  /\ Len(orders[1].lines) = 2
  /\ orders[1].lines[1].item # orders[1].lines[2].item

\* C15: after a successful edit the order's persisted lines are exactly the new
\* line set, one line per item, each with subtotal = quantity x the item's
\* catalog price at the time of the save.
C15_EditReplacesLines ==
  [][SavedOk =>
       LET ec == edit_cart["T1"]
           ls == orders'[dlg["T1"].oid].lines
       IN  /\ Len(ls) = Len(ec)
           /\ \A k \in 1..Len(ec) :
                ls[k] = [item |-> ec[k].id, qty |-> ec[k].qty,
                         subtotal |-> ec[k].qty * price[ec[k].id]]
           /\ \A j, k \in 1..Len(ls) : j # k => ls[j].item # ls[k].item]_vars

\* a saved edit left lines of quantity 1 for both items, one of them at a
\* subtotal of 2: the catalog price had been raised since the line was written
C15_Witness ==
  /\ last = [op |-> "save_changes", res |-> "ok"]
  /\ Len(orders[1].lines) = 2
  /\ \A k \in 1..2 : orders[1].lines[k].qty = 1
  /\ orders[1].lines[1].subtotal = 2
  /\ orders[1].lines[2].subtotal = 1

\* C14: the persisted total of every order equals the sum of the subtotals of
\* its persisted lines, after every completed checkout and every completed edit.
C14_TotalIsSumOfSubtotals ==
  \A o \in 1..Len(orders) :
    orders[o].total =
      SumSeq([k \in 1..Len(orders[o].lines) |-> orders[o].lines[k].subtotal])

\* a two-line order was checked out and the seeded order was edited to hold a
\* line of quantity 2
C14_Witness ==
  /\ Len(orders) = 2
  /\ Len(orders[2].lines) = 2
  /\ orders[1].status = "Preparing"
  /\ \E k \in 1..Len(orders[1].lines) : orders[1].lines[k].qty = 2

\* C16: a status update pressed on an order whose status is Pending, Preparing
\* or Ready is accepted whichever of the four statuses is requested, and the
\* stored status afterwards is the requested one.
C16_StatusUpdateAccepted ==
  [][last'.op = "update_status" =>
       LET oid == dlg["T1"].oid
           from == normalize_status(orders[oid].status)
       IN  from # "Completed" =>
             \E to \in Range(STATUSES) :
               /\ last'.res = from \o ">" \o to
               /\ orders'[oid].status = to]_vars

\* the order taken at the till was moved back from Ready to Pending
C16_Witness ==
  /\ last = [op |-> "update_status", res |-> "Ready>Pending"]
  /\ Len(orders) = 2
  /\ orders[2].status = "Pending"

\* ---------------------------------------------------------------- C17
LegacySpellings == {"Delivered", "delivered", "DELIVERED"}

\* C17 as stated: the status shown by the details dialog is Completed when the
\* stored status is exactly 'Delivered', the stored status itself when it is
\* one of the four statuses, and Pending for every other stored value; it is
\* one of the four statuses and normalizing it again changes nothing.
C17_NormalizeExactLegacy ==
  \A t \in Terminals :
    dlg[t].kind = "details" =>
      LET st == status_for_order(orders, dlg[t].oid)
          shown == dlg[t].status
      IN  /\ st = "Delivered" => shown = "Completed"
          /\ st \in Range(STATUSES) => shown = st
          /\ st \notin Range(STATUSES) \cup {"Delivered"} => shown = "Pending"
          /\ shown \in Range(STATUSES)
          /\ normalize_status(shown) = shown

\* C17 as amended: the status shown by the details dialog is Completed when
\* the stored status is 'Delivered' in any letter case, the stored status
\* itself when it is one of the four statuses, and Pending for every other
\* stored value; it is one of the four statuses and normalizing it again
\* changes nothing.
C17_NormalizeStatus ==
  \A t \in Terminals :
    dlg[t].kind = "details" =>
      LET st == status_for_order(orders, dlg[t].oid)
          shown == dlg[t].status
      IN  /\ st \in LegacySpellings => shown = "Completed"
          /\ st \in Range(STATUSES) => shown = st
          /\ st \notin Range(STATUSES) \cup LegacySpellings => shown = "Pending"
          /\ shown \in Range(STATUSES)
          /\ normalize_status(shown) = shown

\* the details dialog shows Completed for a row stored as 'delivered'
C17_Witness ==
  /\ dlg["T1"].kind = "details"
  /\ status_for_order(orders, dlg["T1"].oid) = "delivered"
  /\ dlg["T1"].status = "Completed"

\* ---------------------------------------------------------------- C18
\* C18: every step that raises the quantity of a cart line (an add or a
\* positive quantity change) leaves that line's quantity <= the item's current
\* catalog stock.
C18_IncrementWithinStock ==
  [][\A t \in Terminals, i \in Items :
       QtyOf(cart'[t], i) > QtyOf(cart[t], i) =>
         QtyOf(cart'[t], i) <= get_item_stock(item_exists', stock', i)]_vars

\* ---------------------------------------------------------------- C19
\* the cart line of an item, or no line
LineOf(c, i) == IF InDict(c, i) THEN c[IndexOf(c, i)] ELSE [id |-> 0, price |-> 0, qty |-> 0]

\* C19: a click on an item card leaves the cart unchanged when the item's
\* current stock is 0 or the cart quantity + 1 would exceed it; otherwise the
\* item is inserted with quantity 1 if absent or its quantity rises by exactly
\* 1, and every other cart line is unchanged.
C19_AddCart ==
  [][\A i \in Items :
       LET refused == stock[i] = 0 \/ QtyOf(cart["T1"], i) + 1 > stock[i]
           added(res) == last' = [op |-> "add_cart", res |-> res \o ":" \o ToString(i)]
       IN  (\E res \in {"outofstock", "limit", "ok"} : added(res)) =>
             /\ added("ok") <=> ~refused
             /\ refused => cart' = cart
             /\ ~refused =>
                  /\ QtyOf(cart'["T1"], i) = QtyOf(cart["T1"], i) + 1
                  /\ ~InDict(cart["T1"], i) => LineOf(cart'["T1"], i).qty = 1
                  /\ Len(cart'["T1"]) = Len(cart["T1"]) + (IF InDict(cart["T1"], i) THEN 0 ELSE 1)
                  /\ \A j \in Items \ {i} : LineOf(cart'["T1"], j) = LineOf(cart["T1"], j)
                  /\ cart'["T2"] = cart["T2"]]_vars

\* an add refused at the stock limit, with another line in the cart
C19_Witness ==
  /\ last = [op |-> "add_cart", res |-> "limit:1"]
  /\ QtyOf(cart["T1"], 1) = 1
  /\ stock[1] = 1
  /\ InDict(cart["T1"], 2)

\* ---------------------------------------------------------------- C20
\* C20: a checkout with an empty cart, with no customer selected or with a cart
\* total <= 0 persists no order and changes no stock (nor the cart or the
\* catalog); a save of the order editor with no line left changes no stock and
\* nothing of any order (lines, total, status), and the editor stays as it was.
C20_InvalidRejected ==
  [][/\ (/\ last'.op = "checkout"
         /\ \/ cart["T1"] = <<>>
            \/ cust_var["T1"] = 0
            \/ CartTotal(cart["T1"]) <= 0)
        => UNCHANGED <<orders, stock, item_exists, price, cart>>
     /\ (last'.op = "save_changes" /\ edit_cart["T1"] = <<>>)
        => UNCHANGED <<orders, stock, item_exists, price, edit_cart, original_cart, dlg>>]_vars

\* a checkout refused for its total: a customer is selected, the cart holds a
\* line of an item priced 0 within stock, and no order was added
C20_Witness ==
  /\ last = [op |-> "checkout", res |-> "invalid"]
  /\ cust_var["T1"] # 0
  /\ cart["T1"] # <<>>
  /\ CartTotal(cart["T1"]) = 0
  /\ Len(orders) = 1

\* ---------------------------------------------------------------- C21
\* C21: when the order shown in the second window's dialog is stored as
\* Completed, a status update or an edit save from that window writes nothing:
\* orders and stock are unchanged.
C21_StaleMutationRejected ==
  [][(/\ last'.op \in {"update_status", "save_changes"}
      /\ dlg'["T1"] = dlg["T1"]
      /\ dlg["T2"].kind # "none"
      /\ normalize_status(status_for_order(orders, dlg["T2"].oid)) = "Completed")
     => UNCHANGED <<orders, stock>>]_vars

\* ---------------------------------------------------------------- C22
\* the number written as w digits from position i of a stored text
TextNumber(text, i, w) ==
  SumSeq([k \in 1..w |-> (text[i + k - 1] - 48) * (10 ^ (w - k))])

\* seconds from the start of the year before the report year, months counted
\* as 31 days: grows with the calendar order of the timestamps
Seconds(y, mo, d, h, mi, sec) ==
  (((((y - (ReportYear - 1)) * 12 + (mo - 1)) * 31 + (d - 1)) * 24 + h) * 60 + mi) * 60 + sec

StampOf(text) ==
  Seconds(TextNumber(text, 1, 4), TextNumber(text, 6, 2), TextNumber(text, 9, 2),
          TextNumber(text, 12, 2), TextNumber(text, 15, 2), TextNumber(text, 18, 2))

\* the orders stamped in [first day of the month, first day of the next month),
\* or in [Jan 1 of the year, Jan 1 of the next year) when no month is given
InPeriod(year, month) ==
  LET first == IF month = 0 THEN Seconds(year, 1, 1, 0, 0, 0)
               ELSE Seconds(year, month, 1, 0, 0, 0)
      next == IF month = 0 \/ month = 12 THEN Seconds(year + 1, 1, 1, 0, 0, 0)
              ELSE Seconds(year, month + 1, 1, 0, 0, 0)
  IN  {o \in OrderIds : first <= StampOf(orders[o].date) /\ StampOf(orders[o].date) < next}

\* C22: the report for a year and a month holds exactly the orders stamped in
\* [first day of the month, first day of the following month), December
\* running to January 1 of the next year; without a month, exactly those in
\* [Jan 1, Jan 1 of the next year); total_revenue is the sum of their totals.
C22_ReportRange ==
  report # NoReport =>
    /\ report.result.orders = InPeriod(report.year, report.month)
    /\ report.result.total_revenue =
         SumSeq([o \in OrderIds |->
                   IF o \in InPeriod(report.year, report.month) THEN orders[o].total ELSE 0])

\* the December report with one order stamped at its first instant (included)
\* and one stamped at January 1 of the next year, 00:00:00 (excluded)
C22_Witness ==
  /\ report # NoReport
  /\ report.year = ReportYear /\ report.month = 12
  /\ orders[1].date = strftime(datetime(ReportYear, 12, 1))
  /\ orders[2].date = strftime(datetime(ReportYear + 1, 1, 1))
  /\ report.result.orders = {1}
  /\ report.result.total_revenue = 1

\* ---------------------------------------------------------------- C23
\* the order the example's checkout creates: one line of item 1
ExampleOrder(o, qty) ==
  /\ o.lines = <<[item |-> 1, qty |-> qty, subtotal |-> qty * ExamplePrice]>>
  /\ o.total = qty * ExamplePrice

\* C23: with item 1 at stock 5 and price 100, each of the first three adds of
\* item 1 raises its cart quantity by 1; the checkout of that cart (3 of item
\* 1) creates an order with status Pending and total 300 and leaves stock 2;
\* in the editor of that order every + on its line up to quantity 5 is
\* accepted (2 in stock + 3 original), and saving it at quantity 5 leaves
\* stock 0, order total 500 and status Preparing.
C23_ExampleScenario ==
  [][/\ (/\ last'.op = "add_cart"
         /\ SubSeq(last'.res, Len(last'.res) - 1, Len(last'.res)) = ":1"
         /\ stock[1] = ExampleStock
         /\ QtyOf(cart["T1"], 1) < ExampleQty)
        => /\ last'.res = "ok:1"
           /\ QtyOf(cart'["T1"], 1) = QtyOf(cart["T1"], 1) + 1
     /\ (/\ last'.op = "checkout"
         /\ stock[1] = ExampleStock
         /\ cart["T1"] = <<[id |-> 1, price |-> ExamplePrice, qty |-> ExampleQty]>>)
        => /\ last'.res = "ok"
           /\ Len(orders') = Len(orders) + 1
           /\ orders'[Len(orders')].status = "Pending"
           /\ ExampleOrder(orders'[Len(orders')], ExampleQty)
           /\ stock'[1] = ExampleStock - ExampleQty
     /\ (/\ last'.op = "change_qty"
         /\ dlg["T1"].oid = 2
         /\ original_cart["T1"] = <<[id |-> 1, qty |-> ExampleQty]>>
         /\ stock[1] = ExampleStock - ExampleQty
         /\ Len(edit_cart["T1"]) = 1
         /\ QtyOf(edit_cart["T1"], 1) \in ExampleQty..(ExampleStock - 1))
        => last'.res = "ok"
     /\ (/\ last'.op = "save_changes"
         /\ dlg["T1"].oid = 2
         /\ ExampleOrder(orders[2], ExampleQty)
         /\ stock[1] = ExampleStock - ExampleQty
         /\ edit_cart["T1"] = <<[id |-> 1, price |-> ExamplePrice, qty |-> ExampleStock]>>)
        => /\ last'.res = "ok"
           /\ stock'[1] = 0
           /\ ExampleOrder(orders'[2], ExampleStock)
           /\ orders'[2].status = "Preparing"]_vars

\* the end of the example: the order of 3 edited to 5 and saved
C23_Witness ==
  /\ last = [op |-> "save_changes", res |-> "ok"]
  /\ Len(orders) = 2
  /\ ExampleOrder(orders[2], ExampleStock)
  /\ orders[2].status = "Preparing"
  /\ stock[1] = 0
  /\ stock[2] = SeedStock

\* ---------------------------------------------------------------- C24
\* positions of the cart lines whose quantity exceeds the stock of their item
ShortLines(c) == {k \in 1..Len(c) : item_exists[c[k].id] /\ c[k].qty > stock[c[k].id]}

\* C24: at every checkout that reaches the stock re-check, the list it returns
\* holds one (item, requested, available) entry for exactly the cart lines
\* whose quantity exceeds the current stock of their item, all of them and in
\* cart order; the checkout writes to orders or stock only if the list is
\* empty, and otherwise ends as insufficient stock.
C24_AllOffendersListed ==
  [][(last'.op = "checkout" /\ cart["T1"] # <<>> /\ cust_var["T1"] # 0) =>
       LET c == cart["T1"]
           insufficient == check_stock_availability(item_exists, stock, c)
       IN  /\ Len(insufficient) = Cardinality(ShortLines(c))
           /\ \A k \in ShortLines(c) :
                \E n \in 1..Len(insufficient) :
                  /\ insufficient[n] = <<c[k].id, c[k].qty, stock[c[k].id]>>
                  /\ n = Cardinality({j \in ShortLines(c) : j <= k})
           /\ insufficient # <<>> =>
                /\ last'.res = "insufficient"
                /\ UNCHANGED <<orders, stock>>
           /\ (orders' # orders \/ stock' # stock) => insufficient = <<>>]_vars

\* a checkout refused with both cart lines short of stock
C24_Witness ==
  /\ last = [op |-> "checkout", res |-> "insufficient"]
  /\ Len(cart["T1"]) = 2
  /\ ShortLines(cart["T1"]) = {1, 2}
  /\ Len(check_stock_availability(item_exists, stock, cart["T1"])) = 2

\* ---------------------------------------------------------------- C25
UsedCodes == {orders[r].code : r \in 1..Len(orders)}

\* C25: a call of ensure_row_code for a row that has a code returns that code
\* and writes nothing; for a row without a code it stores prefix + the id
\* padded to 5 digits when no row carries that code, and otherwise that base
\* code followed by '-k' for the smallest k >= 1 no row carries; the code it
\* returns is the code then stored on the row, and no other row changes.
C25_EnsureRowCodeAssigns ==
  [][LET oid == pc["T1"].oid
         base == generate_code("ORD-", oid)
         suffixed(k) == base \o "-" \o ToString(k)
     IN  /\ (pc["T1"].at = "erc_call" /\ orders[oid].code # "") =>
              /\ orders' = orders
              /\ pc'["T1"].at = "idle"
              /\ returned'["T1"].oid = oid
              /\ returned'["T1"].code = orders[oid].code
         /\ (pc["T1"].at = "erc_call" /\ orders[oid].code = "") =>
              /\ orders' = orders
              /\ pc'["T1"].at = "erc_probe"
         /\ pc["T1"].at = "erc_update" =>
              /\ orders[oid].code = ""
              /\ orders'[oid].code =
                   IF base \notin UsedCodes THEN base
                   ELSE suffixed(CHOOSE k \in 1..(Len(orders) + 1) :
                                   /\ suffixed(k) \notin UsedCodes
                                   /\ \A j \in 1..(k - 1) : suffixed(j) \in UsedCodes)
              /\ \A r \in 1..Len(orders) : r # oid => orders'[r] = orders[r]
              /\ Len(orders') = Len(orders)
              /\ returned'["T1"].oid = oid
              /\ returned'["T1"].code = orders'[oid].code]_vars

\* row 3 was given the second suffix: its base code and its first suffixed
\* code were carried by the two imported rows
C25_Witness ==
  /\ Len(orders) = 3
  /\ orders[3].code = "ORD-00003-2"
  /\ returned["T1"].oid = 3
  /\ returned["T1"].code = "ORD-00003-2"
  /\ pc["T1"].at = "idle"

\* ---------------------------------------------------------------- C26
\* C26: the search of ensure_row_code for a free code ends: the position of the
\* loop only moves forward, one suffix at a time, the candidates it has tested
\* (the base code and the suffixes 1..k) never number more than the rows of
\* the table + 1, and a call that has entered the loop returns.
C26_SearchTerminates ==
  /\ [](pc["T1"].at \in {"erc_probe", "erc_update"} => pc["T1"].k + 1 <= Len(orders) + 1)
  /\ [][pc["T1"].at = "erc_probe" =>
          /\ pc'["T1"].k \in {pc["T1"].k, pc["T1"].k + 1}
          /\ pc'["T1"].k = pc["T1"].k + 1 =>
               Candidate("ORD-", pc["T1"].oid, pc'["T1"].k)
                 \notin {Candidate("ORD-", pc["T1"].oid, j) : j \in 0..pc["T1"].k}]_vars
  /\ (pc["T1"].at = "erc_probe") ~> (pc["T1"].at = "idle")

\* the loop has found its free code at the third candidate, in a table of three
\* rows
C26_Witness ==
  /\ pc["T1"].at = "erc_update"
  /\ pc["T1"].k = 2
  /\ Len(orders) = 3

\* ---------------------------------------------------------------- C27
\* C27: a quantity change of delta on a cart line leaves the line at quantity +
\* delta, or removes the line when that is <= 0, every other line staying as it
\* was; for an item not in the cart it changes nothing; and every line in a
\* cart has quantity >= 1 at all times.
C27_ChangeQuantity ==
  /\ [](\A t \in Terminals : \A k \in 1..Len(cart[t]) : cart[t][k].qty >= 1)
  /\ [][\A i \in Items, delta \in {-1, 1} :
          LET c == cart["T1"]
              changed(res) ==
                last' = [op |-> "change_cart_qty",
                         res |-> res \o ":" \o ToString(i) \o ":" \o ToString(delta)]
          IN  (changed("ok") \/ changed("absent")) =>
                /\ changed("absent") <=> ~InDict(c, i)
                /\ ~InDict(c, i) => cart' = cart
                /\ InDict(c, i) =>
                     /\ QtyOf(cart'["T1"], i) = (IF QtyOf(c, i) + delta <= 0 THEN 0
                                                 ELSE QtyOf(c, i) + delta)
                     /\ InDict(cart'["T1"], i) <=> QtyOf(c, i) + delta >= 1
                     /\ InDict(cart'["T1"], i) => LineOf(cart'["T1"], i).price = LineOf(c, i).price
                     /\ \A j \in Items \ {i} : LineOf(cart'["T1"], j) = LineOf(c, j)
                     /\ Len(cart'["T1"]) = Len(c) - (IF QtyOf(c, i) + delta <= 0 THEN 1 ELSE 0)]_vars

\* a - on the only unit of item 1 has removed its line; the line of item 2
\* stays
C27_Witness ==
  /\ last = [op |-> "change_cart_qty", res |-> "ok:1:-1"]
  /\ ~InDict(cart["T1"], 1)
  /\ InDict(cart["T1"], 2)

\* ---------------------------------------------------------------- C28
\* C28: a checkout whose cart holds a line of an item that has been deleted
\* from the catalog persists no order row and no order line and changes no
\* stock.
C28_DeletedItemCheckout ==
  [][(/\ last'.op = "checkout"
      /\ \E k \in 1..Len(cart["T1"]) : ~item_exists[cart["T1"][k].id])
     => UNCHANGED <<orders, stock>>]_vars

\* ---------------------------------------------------------------- C29
\* C29: while the editor is open, every line it holds has a quantity of at most
\* the current stock of its item plus the quantity of that item on the order's
\* stored lines (0 for an item new to the order); and no save of the editor
\* leaves the stock of any item below zero.
C29_EditWithinAvailable ==
  /\ [](dlg["T1"].kind = "edit" =>
          \A k \in 1..Len(edit_cart["T1"]) :
            LET d == edit_cart["T1"][k]
            IN  d.qty <= stock[d.id] + LineQty(orders[dlg["T1"].oid].lines, d.id))
  /\ [][last'.op = "save_changes" => \A i \in Items : stock'[i] >= 0]_vars

\* a save that took the last unit in stock: the line was raised to stock +
\* original quantity
C29_Witness ==
  /\ last = [op |-> "save_changes", res |-> "ok"]
  /\ orders[1].lines = <<[item |-> 1, qty |-> 2, subtotal |-> 2 * price[1]]>>
  /\ stock[1] = 0

\* ---------------------------------------------------------------- C30
\* C30: for an order created by checkout, every saved edit changes the stock of
\* each item by the quantity the order held of it minus the quantity it holds
\* after the save, so that a save whose lines equal the order's lines changes
\* no stock and an edit to S1 followed by an edit to S2 leaves the stock one
\* edit to S2 would leave; whatever edits were saved, the stock of each item
\* plus the quantity all orders hold of it is what it was at the start.
C30_EditsCompose ==
  /\ [][(SavedOk /\ dlg["T1"].oid >= 2) =>
          LET oid == dlg["T1"].oid
          IN  /\ \A i \in Items :
                   stock'[i] - stock[i] =
                     LineQty(orders[oid].lines, i) - LineQty(orders'[oid].lines, i)
              /\ (\A i \in Items :
                    LineQty(orders'[oid].lines, i) = LineQty(orders[oid].lines, i))
                 => stock' = stock]_vars
  /\ [](\A i \in Items :
          stock[i] + OrderedQty(orders, i) = SeedStock + (IF i = 1 THEN 1 ELSE 0))

\* the order created by checkout with one unit of item 1 has been edited and
\* saved, and now holds one unit of item 2 instead
C30_Witness ==
  /\ last = [op |-> "save_changes", res |-> "ok"]
  /\ Len(orders) = 2
  /\ orders[2].status = "Preparing"
  /\ LineQty(orders[2].lines, 1) = 0
  /\ LineQty(orders[2].lines, 2) = 1
  /\ stock[1] = SeedStock
  /\ stock[2] = SeedStock - 1

====
